---- MODULE Spec2Model ----
(***************************************************************************)
(* The embind export table of src/main/cpp/index.cpp: the registration     *)
(* block EMSCRIPTEN_BINDINGS(module), which runs once as a static          *)
(* initializer when the module is loaded, and the host that afterwards     *)
(* looks up and invokes the exported names.                                *)
(***************************************************************************)
EXTENDS Integers, Sequences, FiniteSets, TLC

\* How many host operations (lookups and invocations) one behaviour follows.
MaxHostOps == 3

----------------------------------------------------------------------------
\* The native functions the block takes the address of.

Utils(fn) == [module |-> "monero_utils_wasm_bridge", fn |-> fn]

Wallet(fn) == [module |-> "monero_wallet_wasm_bridge", fn |-> fn]

\* The result of a lookup that finds no entry.
NotFound == [module |-> "none", fn |-> "not_found"]

\* Mutants of the registration block (plausible slips in lines 10-13).
BindingsWrongTarget ==
    << [name |-> "utils_dummy_method",   target |-> Utils("utils_dummy_method")],
       [name |-> "create_wallet_random", target |-> Wallet("create_wallet_random")],
       [name |-> "create_wallet_dummy",  target |-> Wallet("create_wallet_random")],
       [name |-> "dummy_method",         target |-> Wallet("dummy_method")] >>

BindingsDuplicateName ==
    << [name |-> "utils_dummy_method",   target |-> Utils("utils_dummy_method")],
       [name |-> "create_wallet_random", target |-> Wallet("create_wallet_random")],
       [name |-> "dummy_method",         target |-> Wallet("create_wallet_dummy")],
       [name |-> "dummy_method",         target |-> Wallet("dummy_method")] >>

BindingsExtraExport ==
    << [name |-> "utils_dummy_method",      target |-> Utils("utils_dummy_method")],
       [name |-> "create_wallet_random",    target |-> Wallet("create_wallet_random")],
       [name |-> "create_wallet_dummy",     target |-> Wallet("create_wallet_dummy")],
       [name |-> "dummy_method",            target |-> Wallet("dummy_method")],
       [name |-> "create_wallet_from_seed", target |-> Wallet("create_wallet_from_seed")] >>

BindingsMissingExport ==
    << [name |-> "utils_dummy_method",   target |-> Utils("utils_dummy_method")],
       [name |-> "create_wallet_random", target |-> Wallet("create_wallet_random")],
       [name |-> "create_wallet_dummy",  target |-> Wallet("create_wallet_dummy")] >>

\* The statements of the block, in program order: each is one call
\* emscripten::function(name, &native_function).
Bindings ==
    << [name |-> "utils_dummy_method",   target |-> Utils("utils_dummy_method")],
       [name |-> "create_wallet_random", target |-> Wallet("create_wallet_random")],
       [name |-> "create_wallet_dummy",  target |-> Wallet("create_wallet_dummy")],
       [name |-> "dummy_method",         target |-> Wallet("dummy_method")] >>

\* Number of parameters of a native function, as its header declares it.
NativeArity(target) == 0

----------------------------------------------------------------------------
\* The host side.

\* Names the host asks for: the exports it expects and some it must not find.
HostNames ==
    { "utils_dummy_method", "create_wallet_random", "create_wallet_dummy",
      "dummy_method", "create_wallet_from_seed", "open_wallet" }

\* What a native function can signal when it is invoked.
Signals == { "ok", "exception", "error_code", "trap" }

NoLookup == [name |-> "", result |-> NotFound]

NoCall == [name |-> "", target |-> NotFound, signal |-> "none"]

VARIABLES
    pc,          \* number of statements of the block that have completed
    table,       \* the export table: the entries registered so far, in order
    terminated,  \* the block was left by a failing registration call
    hostOps,     \* host operations performed so far
    lastLookup,  \* the latest host lookup and its result
    lastCall     \* the latest host invocation and the native function's signal

vars == << pc, table, terminated, hostOps, lastLookup, lastCall >>

\* The block has run to its closing brace.
Ready == pc = Len(Bindings) /\ ~terminated

RegistryState == IF Ready THEN "Ready" ELSE "Uninitialized"

\* The target registered under name n, or NotFound.
Lookup(tbl, n) ==
    IF \E i \in DOMAIN tbl : tbl[i].name = n
    THEN tbl[CHOOSE i \in DOMAIN tbl :
                /\ tbl[i].name = n
                /\ \A j \in DOMAIN tbl : j < i => tbl[j].name # n].target
    ELSE NotFound

Init ==
    /\ pc = 0
    /\ table = << >>
    /\ terminated = FALSE
    /\ hostOps = 0
    /\ lastLookup = NoLookup
    /\ lastCall = NoCall

\* Mutant: the call returns without recording the entry.
RegisterFunctionNoWrite ==
    /\ ~terminated
    /\ pc < Len(Bindings)
    /\ pc' = pc + 1
    /\ UNCHANGED << table, terminated, hostOps, lastLookup, lastCall >>

\* Mutant: the block is entered again after it has completed.
RegisterFunctionRerun ==
    /\ ~terminated
    /\ LET i == IF pc < Len(Bindings) THEN pc + 1 ELSE 1
       IN /\ table' = IF pc < Len(Bindings)
                      THEN Append(table, Bindings[i])
                      ELSE << Bindings[i] >>
          /\ pc' = i
    /\ UNCHANGED << terminated, hostOps, lastLookup, lastCall >>

\* The next statement of the block: emscripten::function(name, &target)
\* records the entry and control moves to the following statement.
RegisterFunction ==
    /\ ~terminated
    /\ pc < Len(Bindings)
    /\ table' = Append(table, Bindings[pc + 1])
    /\ pc' = pc + 1
    /\ UNCHANGED << terminated, hostOps, lastLookup, lastCall >>

\* The next registration call fails: control leaves the block, the remaining
\* statements never run, and initialization of the module ends there.
AbortRegistration ==
    /\ ~terminated
    /\ pc < Len(Bindings)
    /\ terminated' = TRUE
    /\ UNCHANGED << pc, table, hostOps, lastLookup, lastCall >>

\* The host looks up an exported name once the module has loaded.
HostLookup(n) ==
    /\ Ready
    /\ hostOps < MaxHostOps
    /\ lastLookup' = [name |-> n, result |-> Lookup(table, n)]
    /\ hostOps' = hostOps + 1
    /\ UNCHANGED << pc, table, terminated, lastCall >>

\* The host invokes an exported name with no arguments; the native function
\* behind the entry runs and signals sig.
HostInvoke(n, sig) ==
    /\ Ready
    /\ hostOps < MaxHostOps
    /\ Lookup(table, n) # NotFound
    /\ NativeArity(Lookup(table, n)) = 0
    /\ lastCall' = [name |-> n, target |-> Lookup(table, n), signal |-> sig]
    /\ hostOps' = hostOps + 1
    /\ UNCHANGED << pc, table, terminated, lastLookup >>

Next ==
    \/ RegisterFunction
    \/ AbortRegistration
    \/ \E n \in HostNames : HostLookup(n)
    \/ \E n \in HostNames, sig \in Signals : HostInvoke(n, sig)

Spec == Init /\ [][Next]_vars

----------------------------------------------------------------------------
\* The export surface the host relies on.

DeclaredNames ==
    { "utils_dummy_method", "create_wallet_random", "create_wallet_dummy",
      "dummy_method" }

DeclaredTarget(n) ==
    IF n = "utils_dummy_method"
    THEN [module |-> "monero_utils_wasm_bridge", fn |-> n]
    ELSE [module |-> "monero_wallet_wasm_bridge", fn |-> n]

TableNames == { table[i].name : i \in DOMAIN table }

\* A step in which the host performed a lookup.
LookupStep == hostOps' = hostOps + 1 /\ lastCall' = lastCall

\* C1: each of the four declared exports is not found by a lookup before
\* initialization begins and is found by a lookup once initialization has
\* completed (including by every lookup the host actually performs).
C1_ExportsReachableAfterInit ==
    \A n \in DeclaredNames :
        /\ pc = 0 => Lookup(table, n) = NotFound
        /\ Ready => Lookup(table, n) # NotFound
        /\ lastLookup.name = n => lastLookup.result # NotFound

C1_Witness ==
    /\ Ready
    /\ lastLookup.name = "create_wallet_random"
    /\ lastLookup.result # NotFound

C3_UniqueNames ==
    \A i, j \in DOMAIN table : i # j => table[i].name # table[j].name

C3_Witness == Len(table) = Len(Bindings) /\ pc = Len(Bindings)

\* C5: a host lookup of a name that is not one of the four declared exports
\* yields "not found", never a function pointer, does not end the module,
\* and leaves the registry as it was.
C5_UndeclaredNotFound ==
    [][ (LookupStep /\ lastLookup'.name \notin DeclaredNames) =>
            /\ lastLookup'.result = NotFound
            /\ table' = table
            /\ pc' = pc
            /\ ~terminated' ]_vars

C5_Witness ==
    /\ lastLookup.name = "create_wallet_from_seed"
    /\ lastLookup.result = NotFound
    /\ Len(table) = Len(Bindings)

\* C7: whenever the host can use the registry (it is Ready, or the host has
\* performed any operation) all four declared entries are present; and once
\* the registration pass has aborted the registry is not Ready, stays
\* aborted, and no host operation has happened or happens.
C7_NoPartialTableUsable ==
    /\ []((Ready \/ hostOps > 0) => DeclaredNames \subseteq TableNames)
    /\ [](terminated => ~Ready /\ hostOps = 0 /\ lastLookup = NoLookup /\ lastCall = NoCall)
    /\ [][terminated => terminated' /\ hostOps' = hostOps /\ table' = table]_vars

C7_Witness == terminated /\ Len(table) \in 1 .. (Len(Bindings) - 1)

\* C8: the table is written only by steps of the single initialization pass,
\* each before any host operation, and once the registry is Ready no step
\* (lookup or invocation) changes the table.
C8_WriteOnceReadMany ==
    [][ /\ table' # table =>
              /\ ~Ready
              /\ hostOps = 0
              /\ pc' = pc + 1
              /\ Len(table') = Len(table) + 1
              /\ SubSeq(table', 1, Len(table)) = table
        /\ Ready => table' = table ]_vars

C8_Witness ==
    /\ Ready
    /\ hostOps = MaxHostOps
    /\ lastLookup # NoLookup
    /\ lastCall # NoCall

\* C9: the registry is Uninitialized or Ready, it changes state only from
\* Uninitialized to Ready, by the step that completes the registration pass,
\* and once Ready it stays Ready.
C9_Lifecycle ==
    [][ /\ RegistryState = "Ready" => RegistryState' = "Ready"
        /\ RegistryState' # RegistryState =>
              /\ RegistryState = "Uninitialized"
              /\ RegistryState' = "Ready"
              /\ pc' = Len(Bindings)
              /\ Len(table') = Len(Bindings) ]_vars

C9_Witness == RegistryState = "Ready" /\ hostOps >= 2

====
